---- MODULE Spec2Model ----
(***************************************************************************)
(* Directory task queue (TaskQueue) and designer worker loop               *)
(* (DesignerAgent) of scripts/designer_agent.py.                           *)
(*                                                                         *)
(* Several processes share one queue directory.  Every file-system call a  *)
(* process makes (glob, open+read, rename, open for writing, dump, unlink) *)
(* is one step; steps of different processes interleave freely.            *)
(***************************************************************************)
EXTENDS Integers, Sequences, FiniteSets, TLC

(* ----------------------------- bounds --------------------------------- *)
MaxTasks == 2
MaxErrs == 3
NumProcs == 2

Names == 1..MaxTasks
Procs == 1..NumProcs

(* --------------------------- program constants ------------------------ *)
AGENT_ROLE == "designer"
Roles == {"designer", "writer"}

(* ------------------------------ epics --------------------------------- *)
(* The text of an epic is abstracted to the set of keywords that occur in  *)
(* its title or prompt (the code tests `word in prompt or word in title`). *)
(* role = "" : the epic has no 'role' key; id / title / prompt = FALSE :   *)
(* the key is missing.                                                     *)
EpicSnake == [id |-> TRUE, role |-> "designer",
              title |-> TRUE, prompt |-> TRUE,
              words |-> {"snake", "sprite", "character"}]
EpicScene == [id |-> TRUE, role |-> "designer",
              title |-> TRUE, prompt |-> TRUE,
              words |-> {"background", "hud"}]
EpicWriter == [id |-> TRUE, role |-> "writer",
               title |-> TRUE, prompt |-> TRUE,
               words |-> {}]
EpicNoTitle == [id |-> TRUE, role |-> "designer",
                title |-> FALSE, prompt |-> TRUE,
                words |-> {"snake"}]
EpicNoPrompt == [id |-> TRUE, role |-> "designer",
                 title |-> TRUE, prompt |-> FALSE,
                 words |-> {}]
EpicNoRole == [id |-> TRUE, role |-> "",
               title |-> TRUE, prompt |-> TRUE,
               words |-> {"snake"}]
EpicNoId == [EpicSnake EXCEPT !.id = FALSE]
Epics == {EpicSnake, EpicScene, EpicWriter, EpicNoTitle, EpicNoPrompt,
          EpicNoRole, EpicNoId}

(* ------------------------------ results ------------------------------- *)
(* The dict process_task returns; present = FALSE stands for None.         *)
NoResult == [present |-> FALSE, success |-> FALSE, assets |-> <<>>,
             error |-> ""]

(* --------------------------- file contents ---------------------------- *)
(* kind "absent": no such file; "torn": a file that json.load cannot      *)
(* parse (empty, partially written, or garbage); "json": a task record.    *)
(* A timestamp of 0, a processingPath of 0 and an error of "" stand for a  *)
(* missing key.                                                            *)
Blank == [kind |-> "absent", id |-> 0, epic |-> EpicNoRole, status |-> "",
          processedAt |-> 0, processingPath |-> 0, completedAt |-> 0,
          failedAt |-> 0, result |-> NoResult, error |-> ""]
Absent == Blank
Torn == [Blank EXCEPT !.kind = "torn"]

(* A producer that names the file after another id than the one it embeds. *)
PendingFileMisnamed(n, e) ==
    [Blank EXCEPT !.kind = "json", !.id = (n % MaxTasks) + 1, !.epic = e,
                  !.status = "pending"]

PendingFile(n, e) ==
    [Blank EXCEPT !.kind = "json", !.id = n, !.epic = e,
                  !.status = "pending"]

Exists(dir, n) == dir[n].kind # "absent"
Readable(dir, n) == dir[n].kind = "json"

(* ------------------------- generation pipeline ------------------------ *)
ProviderValues == {"disabled", "openai", "stable-diffusion", "local", "other"}

(* load_config: the two provider keys read from the environment.           *)
Configs ==
    {[image_generation_provider |-> v, image_generation |-> "disabled"] :
        v \in ProviderValues}
    \cup
    {[image_generation_provider |-> "disabled", image_generation |-> v] :
        v \in ProviderValues}

(* process_task: provider selection with the legacy key as a fall-back.    *)
Provider(cfg) ==
    IF cfg.image_generation_provider = "disabled"
    THEN cfg.image_generation
    ELSE cfg.image_generation_provider

TypeOrder == <<"character", "background", "ui", "icon">>

(* Keyword lists of analyze_epic_for_assets.                               *)
AnalyzeKeywords(type) ==
    CASE type = "character" -> {"sprite", "character", "player", "snake"}
      [] type = "background" -> {"background", "scene", "environment", "map"}
      [] type = "ui" -> {"ui", "button", "menu", "interface", "hud"}
      [] type = "icon" -> {"icon", "item", "powerup", "food", "pickup"}

(* Keyword lists of create_placeholder_assets.                             *)
PlaceholderKeywords(type) ==
    CASE type = "character" -> {"sprite", "character", "player"}
      [] type = "background" -> {"background", "scene", "environment"}
      [] type = "ui" -> {"ui", "button", "menu", "interface"}
      [] type = "icon" -> {"icon", "item", "powerup"}

(* A size map that knows one size only.                                    *)
SizeOfGeneral(type) == <<128, 128>>

SizeOf(type) ==
    CASE type = "character" -> <<64, 64>>
      [] type = "background" -> <<800, 600>>
      [] type = "ui" -> <<128, 32>>
      [] type = "icon" -> <<32, 32>>
      [] OTHER -> <<128, 128>>

(* epic['prompt'].lower() / epic['title'].lower() raise KeyError when the  *)
(* key is missing.                                                         *)
EpicRaises(epic) == ~epic.prompt \/ ~epic.title

(* Every generation call is given epic['id'] as its second argument; the   *)
(* KeyError of a missing key is raised before the call is made.            *)
IdRaises(epic) == ~epic.id

analyze_epic_for_assets(epic) ==
    LET hit == SelectSeq(TypeOrder,
                         LAMBDA t : AnalyzeKeywords(t) \cap epic.words # {})
        types == IF hit = <<>> THEN <<"general">> ELSE hit
    IN  [i \in 1..Len(types) |-> [type |-> types[i], size |-> SizeOf(types[i])]]

(* One call of a generation function for one request.                      *)
Attempt(req, strategy, ok) ==
    [type |-> req.type, size |-> req.size, strategy |-> strategy,
     network |-> strategy \in {"openai", "stable-diffusion"}, ok |-> ok]

(* The asset_types list of create_placeholder_assets.                      *)
asset_types(epic) ==
    LET hit == SelectSeq(TypeOrder,
                     LAMBDA t : PlaceholderKeywords(t) \cap epic.words # {})
    IN  IF hit = <<>> THEN <<"general">> ELSE hit

(* create_placeholder_assets: one placeholder image per detected type; the *)
(* asset dicts carry no 'provider' key (provider "").                      *)
create_placeholder_assets(epic) ==
    IF EpicRaises(epic) \/ IdRaises(epic)
    THEN [raised |-> TRUE, assets |-> <<>>, tried |-> <<>>]
    ELSE LET types == asset_types(epic)
         IN  [raised |-> FALSE,
              assets |-> [i \in 1..Len(types) |->
                             [type |-> types[i], provider |-> ""]],
              tried |-> [i \in 1..Len(types) |->
                            Attempt([type |-> types[i],
                                     size |-> SizeOf(types[i])],
                                    "placeholder", TRUE)]]

(* The single generation function generate_ai_assets calls for a request:  *)
(* the provider's own function, or create_placeholder_image for an         *)
(* unknown provider.                                                       *)
StrategyOf(provider) ==
    IF provider \in {"openai", "stable-diffusion", "local"}
    THEN provider
    ELSE "placeholder"

(* Whether that function returns a path: the remote ones return None on    *)
(* any failure (net[i] = FALSE), the local ones draw a placeholder.        *)
StrategyOk(provider, netok) ==
    IF provider \in {"openai", "stable-diffusion"} THEN netok ELSE TRUE

(* generate_ai_assets: for each request exactly one generation call; a     *)
(* request whose call returned None contributes no asset.  The except      *)
(* branch (placeholders for the whole epic) is entered only when request   *)
(* derivation raises, or epic['id'] ahead of the first call.               *)
generate_ai_assets(epic, provider, net) ==
    IF EpicRaises(epic) \/ IdRaises(epic)
    THEN create_placeholder_assets(epic)
    ELSE LET reqs == analyze_epic_for_assets(epic)
             okAt(i) == StrategyOk(provider, net[i])
             kept == SelectSeq([i \in 1..Len(reqs) |-> i], okAt)
         IN  [raised |-> FALSE,
              assets |-> [k \in 1..Len(kept) |->
                             [type |-> reqs[kept[k]].type,
                              provider |-> provider]],
              tried |-> [i \in 1..Len(reqs) |->
                            Attempt(reqs[i], StrategyOf(provider), okAt(i))]]

(* A process_task that reports failure as soon as one generation call has  *)
(* returned nothing.                                                       *)
process_task_strict(t, cfg, net) ==
    IF ~t.epic.title
    THEN [raised |-> TRUE, result |-> NoResult, tried |-> <<>>]
    ELSE LET provider == Provider(cfg)
             r == IF provider = "disabled"
                  THEN create_placeholder_assets(t.epic)
                  ELSE generate_ai_assets(t.epic, provider, net)
         IN  IF r.raised \/ \E i \in 1..Len(r.tried) : ~r.tried[i].ok
             THEN [raised |-> FALSE,
                   result |-> [present |-> TRUE, success |-> FALSE,
                               assets |-> r.assets, error |-> "KeyError"],
                   tried |-> r.tried]
             ELSE [raised |-> FALSE,
                   result |-> [present |-> TRUE, success |-> TRUE,
                               assets |-> r.assets, error |-> ""],
                   tried |-> r.tried]

(* process_task: raises only from the log line ahead of its try block      *)
(* (task['epic']['title']); every other exception becomes success=False.   *)
process_task(t, cfg, net) ==
    IF ~t.epic.title
    THEN [raised |-> TRUE, result |-> NoResult, tried |-> <<>>]
    ELSE LET provider == Provider(cfg)
             r == IF provider = "disabled"
                  THEN create_placeholder_assets(t.epic)
                  ELSE generate_ai_assets(t.epic, provider, net)
         IN  IF r.raised
             THEN [raised |-> FALSE,
                   result |-> [present |-> TRUE, success |-> FALSE,
                               assets |-> <<>>, error |-> "KeyError"],
                   tried |-> r.tried]
             ELSE [raised |-> FALSE,
                   result |-> [present |-> TRUE, success |-> TRUE,
                               assets |-> r.assets, error |-> ""],
                   tried |-> r.tried]

(* The outcomes of the network calls one process_task run can meet: one   *)
(* per derived request.                                                    *)
NetOutcomes(epic) ==
    IF EpicRaises(epic) \/ IdRaises(epic)
    THEN {<<>>}
    ELSE [1..Len(analyze_epic_for_assets(epic)) -> BOOLEAN]

(* ------------------------------- state -------------------------------- *)
VARIABLES
    pending_dir,      \* file name -> content of queue_dir/pending
    processing_dir,   \* file name -> content of queue_dir/processing
    completed_dir,    \* file name -> content of queue_dir/completed
    failed_dir,       \* file name -> content of queue_dir/failed
    config,           \* DesignerAgent.config
    pc,               \* position of each process
    agent_role,       \* dequeue: argument
    task_files,       \* dequeue: globbed files not yet visited
    task_file,        \* dequeue: file of the current iteration
    task,             \* dequeue / complete_task / fail_task: local `task`
    ret,              \* value returned by the last dequeue call (Absent: None)
    task_id,          \* complete_task / fail_task: argument
    result,           \* poll_for_tasks: result of process_task
    tried,            \* generation calls made by the last process_task run
    logged,           \* the current complete_task / fail_task call has
                      \* ended in its except clause
    outcome,          \* how the last queue call ended: "returned" / "raised"
    moved,            \* files the current dequeue call renamed into processing
    returned,         \* file name -> number of dequeue calls that returned it
    was_terminal,     \* the task of the current complete_task / fail_task
                      \* call had a completed or failed record at the call
    hist,             \* file name -> status values seen in the store so far
    is_running,       \* DesignerAgent.is_running
    wait,             \* seconds of the asyncio.sleep the loop is in, in units
                      \* of poll_interval (0: the loop is not sleeping)
    errs,             \* consecutive iterations that ended in the except
                      \* clause of the loop
    orphans           \* files found in processing at start-up

store == <<pending_dir, processing_dir, completed_dir, failed_dir>>
vars == <<pending_dir, processing_dir, completed_dir, failed_dir, config,
          pc, agent_role, task_files, task_file, task, ret, task_id, result,
          tried, logged, outcome, moved, returned, was_terminal, hist,
          is_running, wait, errs, orphans>>

(* The state of the loop of each agent, and what start-up found.           *)
loop == <<is_running, wait, errs>>

(* time.time(): the code never compares timestamps, so a timestamp is      *)
(* kept as the fact that the key is set (0: the key is missing).           *)
Stamp == 1

(* What an except clause of TaskQueue does with an exception: it logs it   *)
(* and the call returns normally.                                          *)
OnQueueError == "returned"

(* Status values a reader finds under file name n, in any directory.       *)
Observed(n) ==
    {d[n].status : d \in {dd \in {pending_dir, processing_dir, completed_dir,
                                   failed_dir} : Readable(dd, n)}}

HistNext ==
    /\ hist' = [n \in Names |->
                   LET new == Observed(n)' \ Observed(n)
                   IN  IF new = {} THEN hist[n]
                       ELSE hist[n] \o <<CHOOSE s \in new : TRUE>>]
    /\ orphans' = orphans

(* ------------------------------- Init --------------------------------- *)
(* The producer writes one file per task into pending, named by the task   *)
(* id; a file may also be unparseable.  The other directories start empty  *)
(* (TaskQueue.init only creates them).                                     *)
PendingContents(n, epics) ==
    {PendingFile(n, e) : e \in epics} \cup {Torn, Absent}

(* DesignerAgent.__init__ and the locals of calls not yet made.            *)
InitAgents ==
    /\ is_running = [p \in Procs |-> TRUE]
    /\ wait = [p \in Procs |-> 0]
    /\ errs = [p \in Procs |-> 0]
    /\ agent_role = [p \in Procs |-> ""]
    /\ task_files = [p \in Procs |-> {}]
    /\ task_file = [p \in Procs |-> 0]
    /\ task = [p \in Procs |-> Absent]
    /\ ret = [p \in Procs |-> Absent]
    /\ task_id = [p \in Procs |-> 0]
    /\ result = [p \in Procs |-> NoResult]
    /\ tried = [p \in Procs |-> <<>>]
    /\ logged = [p \in Procs |-> FALSE]
    /\ outcome = [p \in Procs |-> ""]
    /\ moved = [p \in Procs |-> {}]
    /\ returned = [n \in Names |-> 0]
    /\ was_terminal = [p \in Procs |-> FALSE]

InitCommon(epics) ==
    /\ pending_dir \in
          {f \in [Names -> UNION {PendingContents(n, epics) : n \in Names}] :
              \A n \in Names : f[n] \in PendingContents(n, epics)}
    /\ processing_dir = [n \in Names |-> Absent]
    /\ completed_dir = [n \in Names |-> Absent]
    /\ failed_dir = [n \in Names |-> Absent]
    /\ orphans = {}
    /\ InitAgents
    /\ hist = [n \in Names |-> IF Readable(pending_dir, n)
                               THEN <<"pending">> ELSE <<>>]

(* --------------------------- TaskQueue.dequeue ------------------------ *)
(* Entry of dequeue(role) and its first statement,                         *)
(* task_files = [f for f in self.pending_dir.glob('*.json')]               *)
CallDequeue(p, role) ==
    /\ pc' = [pc EXCEPT ![p] = "dq_loop"]
    /\ agent_role' = [agent_role EXCEPT ![p] = role]
    /\ task_files' = [task_files EXCEPT ![p] =
                         {n \in Names : Exists(pending_dir, n)}]
    /\ logged' = [logged EXCEPT ![p] = FALSE]
    /\ outcome' = [outcome EXCEPT ![p] = ""]
    /\ moved' = [moved EXCEPT ![p] = {}]
    /\ ret' = [ret EXCEPT ![p] = Absent]
    /\ task' = [task EXCEPT ![p] = Absent]
    /\ task_file' = [task_file EXCEPT ![p] = 0]

(* A role test that only asks for a role to be present.                    *)
RoleMatchesAny(t, role) == t.epic.role # ""

(* The role test of dequeue: a KeyError for a missing role counts as no    *)
(* match (the except clause skips the file).                               *)
RoleMatches(t, role) == t.epic.role # "" /\ t.epic.role = role

(* The next file of the listing.  glob yields the entries in the order of  *)
(* the directory, which is the same for every caller; the file names are   *)
(* numbered in that order, and Init puts every content under every name.   *)
NextFile(files) == CHOOSE n \in files : \A m \in files : n <= m

(* One iteration of the for loop up to the role test (open, json.load,     *)
(* task['epic']['role'] == agent_role), or the end of the loop.  A file    *)
(* that cannot be read, or has no role, is skipped by the except clause of *)
(* the loop body.  task_file and task are recorded for the file the call   *)
(* goes on to claim; for a file it skips they are not read again.          *)
(* An error in one file that ends the listing, as if the call had only its *)
(* outer try.                                                              *)
OnFileErrorStop(files, n) == {}

(* The except clause of the loop body: the error is logged and the loop    *)
(* goes on with the files that are left.                                   *)
OnFileError(files, n) == files \ {n}

(* open, json.load or task['epic']['role'] raises for this file.           *)
ReadRaises(dir, n) == ~Readable(dir, n) \/ dir[n].epic.role = ""

DequeueRead(p) ==
    /\ pc[p] = "dq_loop"
    /\ IF task_files[p] = {}
       THEN /\ ret' = [ret EXCEPT ![p] = Absent]
            /\ outcome' = [outcome EXCEPT ![p] = "returned"]
            /\ pc' = [pc EXCEPT ![p] = "dq_ret"]
            /\ task_file' = [task_file EXCEPT ![p] = 0]
            /\ task' = [task EXCEPT ![p] = Absent]
            /\ UNCHANGED task_files
       ELSE LET n == NextFile(task_files[p]) IN
            /\ task_files' = [task_files EXCEPT ![p] =
                                 IF ReadRaises(pending_dir, n)
                                 THEN OnFileError(@, n) ELSE @ \ {n}]
            /\ UNCHANGED <<ret, outcome>>
            /\ IF /\ Readable(pending_dir, n)
                  /\ RoleMatches(pending_dir[n], agent_role[p])
               THEN /\ task_file' = [task_file EXCEPT ![p] = n]
                    /\ task' = [task EXCEPT ![p] = pending_dir[n]]
                    /\ pc' = [pc EXCEPT ![p] = "dq_rename"]
               ELSE UNCHANGED <<task_file, task, pc>>
    /\ UNCHANGED <<store, config, agent_role, task_id, result, tried,
                   logged, moved, returned, was_terminal>>
    /\ UNCHANGED loop
    /\ HistNext

(* A rename that does not notice that the source is gone.                  *)
RenameSucceedsBlind(dir, n) == TRUE

(* Path.rename succeeds iff the source still exists (it replaces an        *)
(* existing target).                                                       *)
RenameSucceeds(dir, n) == Exists(dir, n)

(* A loop body that goes on to the rewrite after a failed rename.          *)
OnRenameErrorWrite == "dq_open"

(* except Exception as e: log, continue -- a failed rename is caught by    *)
(* the except clause of the loop body, which goes on to the next file.     *)
OnRenameError == "dq_loop"

(* task_file.rename(processing_path)                                       *)
DequeueRename(p) ==
    /\ pc[p] = "dq_rename"
    /\ LET n == task_file[p] IN
       IF RenameSucceeds(pending_dir, n)
       THEN /\ processing_dir' = [processing_dir EXCEPT ![n] = pending_dir[n]]
            /\ pending_dir' = [pending_dir EXCEPT ![n] = Absent]
            /\ moved' = [moved EXCEPT ![p] = @ \cup {n}]
            /\ pc' = [pc EXCEPT ![p] = "dq_open"]
       ELSE /\ pc' = [pc EXCEPT ![p] = OnRenameError]
            /\ UNCHANGED <<pending_dir, processing_dir, moved>>
    /\ UNCHANGED <<completed_dir, failed_dir, config, agent_role,
                   task_files, task_file, task, ret, task_id, result, tried,
                   logged, outcome, returned, was_terminal>>
    /\ UNCHANGED loop
    /\ HistNext

(* A dequeue that forgets to set the status.                               *)
ProcessingRecordNoStatus(t, n) ==
    [t EXCEPT !.processedAt = Stamp, !.processingPath = n]

(* The record dequeue builds (lines 546-548).                              *)
ProcessingRecord(t, n) ==
    [t EXCEPT !.status = "processing", !.processedAt = Stamp,
              !.processingPath = n]

(* The three assignments to the local task, then                           *)
(* open(processing_path, 'w'), which creates or empties the file.          *)
DequeueOpen(p) ==
    /\ pc[p] = "dq_open"
    /\ task' = [task EXCEPT ![p] = ProcessingRecord(@, task_file[p])]
    /\ processing_dir' = [processing_dir EXCEPT ![task_file[p]] = Torn]
    /\ pc' = [pc EXCEPT ![p] = "dq_dump"]
    /\ UNCHANGED <<pending_dir, completed_dir, failed_dir, config, agent_role,
                   task_files, task_file, ret, task_id, result, tried, logged,
                   outcome, moved, returned,
                   was_terminal>>
    /\ UNCHANGED loop
    /\ HistNext

(* The log line after the dump reads task['epic']['title'] and task['id']. *)
LogRaises(t) == ~t.epic.title

(* json.dump(task, f), the log line, return task.  A KeyError of the log   *)
(* line is caught by the except clause of the loop body, which goes on to  *)
(* the next file.                                                          *)
DequeueDump(p) ==
    /\ pc[p] = "dq_dump"
    /\ processing_dir' = [processing_dir EXCEPT ![task_file[p]] = task[p]]
    /\ IF LogRaises(task[p])
       THEN /\ pc' = [pc EXCEPT ![p] = "dq_loop"]
            /\ UNCHANGED <<ret, outcome, returned, task_files>>
       ELSE /\ ret' = [ret EXCEPT ![p] = task[p]]
            /\ outcome' = [outcome EXCEPT ![p] = "returned"]
            /\ returned' = [returned EXCEPT ![task_file[p]] = @ + 1]
            /\ pc' = [pc EXCEPT ![p] = "dq_ret"]
            /\ task_files' = [task_files EXCEPT ![p] = {}]
    /\ task_file' = [task_file EXCEPT ![p] = 0]
    /\ task' = [task EXCEPT ![p] = Absent]
    /\ UNCHANGED <<pending_dir, completed_dir, failed_dir, config,
                   agent_role, task_id, result, tried, logged, moved,
                   was_terminal>>
    /\ UNCHANGED loop
    /\ HistNext

(* ---------------- TaskQueue.complete_task / fail_task ------------------ *)
(* Entry of complete_task(id, result) (kind "ct") or fail_task(id, error)  *)
(* (kind "ft"); r carries the result dict or, in r.error, str(error).      *)
CallTerminal(p, kind, id, r) ==
    /\ pc' = [pc EXCEPT ![p] = IF kind = "ct" THEN "ct_read" ELSE "ft_read"]
    /\ task_id' = [task_id EXCEPT ![p] = id]
    /\ result' = [result EXCEPT ![p] = r]
    /\ logged' = [logged EXCEPT ![p] = FALSE]
    /\ outcome' = [outcome EXCEPT ![p] = ""]
    /\ task' = [task EXCEPT ![p] = Absent]
    /\ was_terminal' = [was_terminal EXCEPT ![p] =
                           Exists(completed_dir, id) \/ Exists(failed_dir, id)]

(* The directory the call writes to.                                       *)
IsComplete(p) == pc[p] \in {"ct_read", "ct_open", "ct_dump", "ct_unlink"}

(* A read that does not fail on a missing file.                            *)
ReadSucceedsAlways(dir, id) == TRUE

(* with open(processing_path, 'r'): task = json.load(f) -- the file the    *)
(* call works on is processing/<task_id>.json.                             *)
ReadSucceeds(dir, id) == Readable(dir, id)

(* A complete_task that builds its record anew and leaves the epic out.    *)
CompletedRecordBare(t, r, time) ==
    [Blank EXCEPT !.kind = "json", !.id = t.id, !.status = "completed",
                  !.completedAt = time, !.result = r]

(* The record complete_task builds (lines 574-577).                        *)
CompletedRecord(t, r, time) ==
    [t EXCEPT !.status = "completed", !.completedAt = time,
              !.result = IF r.present THEN r ELSE @]

(* A fail_task that also stores what it was given as a result.             *)
FailedRecordWithResult(t, r, time) ==
    [t EXCEPT !.status = "failed", !.failedAt = time, !.error = r.error,
              !.result = r]

(* The record fail_task builds (lines 598-600).                            *)
FailedRecord(t, r, time) ==
    [t EXCEPT !.status = "failed", !.failedAt = time, !.error = r.error]

(* A call that forgets to write the terminal file.                         *)
AfterReadUnlink(p) == IF IsComplete(p) THEN "ct_unlink" ELSE "ft_unlink"

(* After the read and the assignments comes the write of the terminal      *)
(* file; the unlink of the processing file comes last.                     *)
AfterRead(p) == IF IsComplete(p) THEN "ct_open" ELSE "ft_open"

(* Read of the processing file and the assignments to the local task; a    *)
(* missing or unparseable file ends the call in its except clause.         *)
TerminalRead(p) ==
    /\ pc[p] \in {"ct_read", "ft_read"}
    /\ IF ReadSucceeds(processing_dir, task_id[p])
       THEN /\ task' = [task EXCEPT ![p] =
                           IF IsComplete(p)
                           THEN CompletedRecord(processing_dir[task_id[p]],
                                                result[p], Stamp)
                           ELSE FailedRecord(processing_dir[task_id[p]],
                                             result[p], Stamp)]
            /\ pc' = [pc EXCEPT ![p] = AfterRead(p)]
            /\ UNCHANGED <<logged, outcome>>
       ELSE /\ logged' = [logged EXCEPT ![p] = TRUE]
            /\ outcome' = [outcome EXCEPT ![p] = OnQueueError]
            /\ pc' = [pc EXCEPT ![p] = IF IsComplete(p) THEN "ct_ret"
                                                         ELSE "ft_ret"]
            /\ UNCHANGED task
    /\ UNCHANGED <<store, config, agent_role, task_files, task_file, ret,
                   task_id, result, tried, moved, returned,
                   was_terminal>>
    /\ UNCHANGED loop
    /\ HistNext

(* open(completed_path, 'w') / open(failed_path, 'w')                      *)
TerminalOpen(p) ==
    /\ pc[p] \in {"ct_open", "ft_open"}
    /\ IF IsComplete(p)
       THEN /\ completed_dir' = [completed_dir EXCEPT ![task_id[p]] = Torn]
            /\ pc' = [pc EXCEPT ![p] = "ct_dump"]
            /\ UNCHANGED failed_dir
       ELSE /\ failed_dir' = [failed_dir EXCEPT ![task_id[p]] = Torn]
            /\ pc' = [pc EXCEPT ![p] = "ft_dump"]
            /\ UNCHANGED completed_dir
    /\ UNCHANGED <<pending_dir, processing_dir, config, agent_role,
                   task_files, task_file, task, ret, task_id, result, tried,
                   logged, outcome, moved, returned,
                   was_terminal>>
    /\ UNCHANGED loop
    /\ HistNext

(* json.dump(task, f)                                                      *)
TerminalDump(p) ==
    /\ pc[p] \in {"ct_dump", "ft_dump"}
    /\ IF IsComplete(p)
       THEN /\ completed_dir' = [completed_dir EXCEPT ![task_id[p]] = task[p]]
            /\ pc' = [pc EXCEPT ![p] = "ct_unlink"]
            /\ UNCHANGED failed_dir
       ELSE /\ failed_dir' = [failed_dir EXCEPT ![task_id[p]] = task[p]]
            /\ pc' = [pc EXCEPT ![p] = "ft_unlink"]
            /\ UNCHANGED completed_dir
    /\ UNCHANGED <<pending_dir, processing_dir, config, agent_role,
                   task_files, task_file, task, ret, task_id, result, tried,
                   logged, outcome, moved, returned,
                   was_terminal>>
    /\ UNCHANGED loop
    /\ HistNext

(* processing_path.unlink(), then the log line; FileNotFoundError and the  *)
(* KeyError of the log line both end in the except clause.                 *)
TerminalUnlink(p) ==
    /\ pc[p] \in {"ct_unlink", "ft_unlink"}
    /\ IF Exists(processing_dir, task_id[p])
       THEN /\ processing_dir' = [processing_dir EXCEPT ![task_id[p]] = Absent]
            /\ logged' = [logged EXCEPT ![p] = LogRaises(task[p])]
       ELSE /\ logged' = [logged EXCEPT ![p] = TRUE]
            /\ UNCHANGED processing_dir
    /\ outcome' = [outcome EXCEPT ![p] =
                      IF logged'[p] THEN OnQueueError ELSE "returned"]
    /\ pc' = [pc EXCEPT ![p] = IF pc[p] = "ct_unlink" THEN "ct_ret"
                                                       ELSE "ft_ret"]
    /\ UNCHANGED <<pending_dir, completed_dir, failed_dir, config,
                   agent_role, task_files, task_file, task, ret, task_id,
                   result, tried, moved, returned,
                   was_terminal>>
    /\ UNCHANGED loop
    /\ HistNext

(* --------------------- DesignerAgent.poll_for_tasks ------------------- *)
(* load_config: TASK_POLL_INTERVAL defaults to 2000 ms, kept in seconds.   *)
poll_interval == 2

(* The two sleeps of the loop: after an iteration, and in its except       *)
(* clause.                                                                 *)
NormalWait == poll_interval

(* An except clause that waits no longer than the try block.               *)
ErrorWaitSame == poll_interval

ErrorWait == poll_interval * 2

(* while self.is_running: ...                                              *)
LoopGuardOpen(p) == TRUE
LoopGuard(p) == is_running[p]

(* if self.is_running: await asyncio.sleep(w), else back to the while test *)
Sleep(p, w) ==
    /\ wait' = [wait EXCEPT ![p] = IF is_running[p] THEN w ELSE 0]
    /\ UNCHANGED is_running

(* A loop that ends with its iteration.                                    *)
AfterIterationStop(p) == "exit"

(* Both the try block and the except clause end in the sleep, inside the   *)
(* while loop.                                                             *)
AfterIteration(p) == IF is_running[p] THEN "sleep" ELSE "poll"

(* task = await self.task_queue.dequeue(AGENT_ROLE)                        *)
PollDequeue(p) ==
    /\ pc[p] = "poll"
    /\ LoopGuard(p)
    /\ CallDequeue(p, AGENT_ROLE)
    /\ UNCHANGED <<store, config, task_id, result, tried, returned,
                   was_terminal>>
    /\ UNCHANGED loop
    /\ HistNext

(* The locals of a finished dequeue call go out of scope.                  *)
DequeueDone(p) ==
    /\ agent_role' = [agent_role EXCEPT ![p] = ""]
    /\ task_files' = [task_files EXCEPT ![p] = {}]
    /\ task_file' = [task_file EXCEPT ![p] = 0]
    /\ task' = [task EXCEPT ![p] = Absent]
    /\ logged' = [logged EXCEPT ![p] = FALSE]
    /\ outcome' = [outcome EXCEPT ![p] = ""]
    /\ moved' = [moved EXCEPT ![p] = {}]

(* The locals of a finished complete_task / fail_task call, and of the     *)
(* loop iteration that made it, go out of scope.                           *)
TerminalDone(p) ==
    /\ task' = [task EXCEPT ![p] = Absent]
    /\ task_id' = [task_id EXCEPT ![p] = 0]
    /\ result' = [result EXCEPT ![p] = NoResult]
    /\ ret' = [ret EXCEPT ![p] = Absent]
    /\ tried' = [tried EXCEPT ![p] = <<>>]
    /\ logged' = [logged EXCEPT ![p] = FALSE]
    /\ outcome' = [outcome EXCEPT ![p] = ""]
    /\ was_terminal' = [was_terminal EXCEPT ![p] = FALSE]

(* if task: result = await self.process_task(task); a miss goes to the     *)
(* sleep.  An exception of process_task is caught by the loop.             *)
PollProcess(p) ==
    /\ pc[p] = "dq_ret"
    /\ DequeueDone(p)
    /\ IF ret[p].kind = "absent"
       THEN /\ pc' = [pc EXCEPT ![p] = AfterIteration(p)]
            /\ Sleep(p, NormalWait)
            /\ errs' = [errs EXCEPT ![p] = 0]
            /\ UNCHANGED <<ret, result, tried>>
       ELSE \E net \in NetOutcomes(ret[p].epic) :
            LET r == process_task(ret[p], config, net) IN
            /\ result' = [result EXCEPT ![p] = r.result]
            /\ tried' = [tried EXCEPT ![p] = r.tried]
            /\ ret' = [ret EXCEPT ![p] = IF r.raised THEN Absent ELSE @]
            /\ pc' = [pc EXCEPT ![p] = IF r.raised THEN AfterIteration(p)
                                                   ELSE "report"]
            /\ IF r.raised
               THEN /\ Sleep(p, ErrorWait)
                    /\ errs' = [errs EXCEPT ![p] = @ + 1]
               ELSE UNCHANGED loop
    /\ UNCHANGED <<store, config, task_id, returned,
                   was_terminal>>
    /\ HistNext

(* A loop that forgets to report.                                          *)
PollReportSkip(p) ==
    /\ pc[p] = "report"
    /\ TerminalDone(p)
    /\ pc' = [pc EXCEPT ![p] = AfterIteration(p)]
    /\ Sleep(p, NormalWait)
    /\ errs' = [errs EXCEPT ![p] = 0]
    /\ UNCHANGED <<store, config, agent_role, task_files, task_file, moved,
                   returned>>
    /\ HistNext

(* if result['success']: complete_task(task['id'], result)                 *)
(* else: fail_task(task['id'], Exception(result['error']))                 *)
PollReport(p) ==
    /\ pc[p] = "report"
    /\ CallTerminal(p, IF result[p].success THEN "ct" ELSE "ft", ret[p].id,
                    result[p])
    /\ UNCHANGED <<store, config, agent_role, task_files, task_file, ret,
                   tried, moved, returned>>
    /\ UNCHANGED loop
    /\ HistNext

(* Back from complete_task / fail_task: on to the sleep.                   *)
PollReported(p) ==
    /\ pc[p] \in {"ct_ret", "ft_ret"}
    /\ TerminalDone(p)
    /\ pc' = [pc EXCEPT ![p] = AfterIteration(p)]
    /\ Sleep(p, NormalWait)
    /\ errs' = [errs EXCEPT ![p] = 0]
    /\ UNCHANGED <<store, config, agent_role, task_files, task_file, moved,
                   returned>>
    /\ HistNext

(* await asyncio.sleep(...), then the next iteration.                      *)
PollSleep(p) ==
    /\ pc[p] = "sleep"
    /\ pc' = [pc EXCEPT ![p] = "poll"]
    /\ wait' = [wait EXCEPT ![p] = 0]
    /\ UNCHANGED <<store, config, agent_role, task_files, task_file, task, ret,
                   task_id, result, tried, logged, outcome, moved, returned,
                   was_terminal, is_running, errs>>
    /\ HistNext

(* The while test finds is_running false: poll_for_tasks returns, and main  *)
(* with it.                                                                *)
PollExit(p) ==
    /\ pc[p] = "poll"
    /\ ~LoopGuard(p)
    /\ pc' = [pc EXCEPT ![p] = "exit"]
    /\ UNCHANGED <<store, config, agent_role, task_files, task_file, task, ret,
                   task_id, result, tried, logged, outcome, moved, returned,
                   was_terminal>>
    /\ UNCHANGED loop
    /\ HistNext

(* except Exception as e: an exception that none of the calls has caught  *)
(* -- the queue and process_task catch their own, so it is one the runtime *)
(* raises in the try block itself, such as MemoryError -- reaches the      *)
(* except clause of the loop: log, then the longer sleep.                  *)
PollFault(p) ==
    /\ pc[p] = "poll"
    /\ LoopGuard(p)
    /\ errs[p] < MaxErrs
    /\ errs' = [errs EXCEPT ![p] = @ + 1]
    /\ Sleep(p, ErrorWait)
    /\ pc' = [pc EXCEPT ![p] = AfterIteration(p)]
    /\ UNCHANGED <<store, config, agent_role, task_files, task_file, task, ret,
                   task_id, result, tried, logged, outcome, moved, returned,
                   was_terminal>>
    /\ HistNext

(* --------------------------- DesignerAgent.shutdown -------------------- *)
(* The positions of a loop that has not ended.                             *)
LoopPcs == {"poll", "dq_loop", "dq_rename", "dq_open", "dq_dump", "dq_ret",
            "report", "ct_read", "ct_open", "ct_dump", "ct_unlink", "ct_ret",
            "ft_read", "ft_open", "ft_dump", "ft_unlink", "ft_ret", "sleep"}

(* shutdown() run by another task of the event loop (a signal handler, an  *)
(* embedding program): it can run only while the loop is suspended in its  *)
(* await asyncio.sleep.  self.is_running = False; the close of the session *)
(* and the sleep of one second change nothing the loop reads.              *)
Shutdown(p) ==
    /\ pc[p] = "sleep"
    /\ is_running[p]
    /\ is_running' = [is_running EXCEPT ![p] = FALSE]
    /\ UNCHANGED <<store, config, pc, agent_role, task_files, task_file, task,
                   ret, task_id, result, tried, logged, outcome, moved,
                   returned, was_terminal, wait, errs>>
    /\ HistNext

(* SIGINT as main handles it: no handler is installed, so the interrupt    *)
(* is raised inside whatever the loop is executing and leaves              *)
(* poll_for_tasks through every frame (KeyboardInterrupt and CancelledError *)
(* are not Exceptions); the locals of the calls in progress are lost.       *)
(* main's except KeyboardInterrupt then runs shutdown(), or -- where the   *)
(* interpreter cancels the main task instead -- no handler of main runs;   *)
(* either way the process exits.                                           *)
Interrupt(p) ==
    /\ pc[p] \in LoopPcs
    /\ is_running[p]
    /\ \E handled \in BOOLEAN :
          is_running' = [is_running EXCEPT ![p] = ~handled]
    /\ pc' = [pc EXCEPT ![p] = "exit"]
    /\ agent_role' = [agent_role EXCEPT ![p] = ""]
    /\ task_files' = [task_files EXCEPT ![p] = {}]
    /\ task_file' = [task_file EXCEPT ![p] = 0]
    /\ moved' = [moved EXCEPT ![p] = {}]
    /\ TerminalDone(p)
    /\ wait' = [wait EXCEPT ![p] = 0]
    /\ UNCHANGED <<store, config, returned, errs>>
    /\ HistNext

(* ------------------------ direct callers of the queue ------------------ *)
SampleResult == [present |-> TRUE, success |-> TRUE,
                 assets |-> <<[type |-> "general", provider |-> ""]>>,
                 error |-> ""]
SampleError == [present |-> TRUE, success |-> FALSE, assets |-> <<>>,
                error |-> "boom"]

(* No other call is in progress.                                           *)
Quiet == \A q \in Procs : pc[q] \in {"idle", "off"}

ApiDequeue(p) ==
    /\ pc[p] = "idle"
    /\ Quiet
    /\ \E role \in Roles : CallDequeue(p, role)
    /\ UNCHANGED <<store, config, task_id, result, tried, returned,
                   was_terminal>>
    /\ UNCHANGED loop
    /\ HistNext

ApiComplete(p) ==
    /\ pc[p] = "idle"
    /\ Quiet
    /\ \E id \in Names, r \in {NoResult, SampleResult} :
          CallTerminal(p, "ct", id, r)
    /\ UNCHANGED <<store, config, agent_role, task_files, task_file, ret,
                   tried, moved, returned>>
    /\ UNCHANGED loop
    /\ HistNext

ApiFail(p) ==
    /\ pc[p] = "idle"
    /\ Quiet
    /\ \E id \in Names : CallTerminal(p, "ft", id, SampleError)
    /\ UNCHANGED <<store, config, agent_role, task_files, task_file, ret,
                   tried, moved, returned>>
    /\ UNCHANGED loop
    /\ HistNext

ApiReturn(p) ==
    /\ pc[p] \in {"dq_ret", "ct_ret", "ft_ret"}
    /\ DequeueDone(p)
    /\ task_id' = [task_id EXCEPT ![p] = 0]
    /\ result' = [result EXCEPT ![p] = NoResult]
    /\ ret' = [ret EXCEPT ![p] = Absent]
    /\ was_terminal' = [was_terminal EXCEPT ![p] = FALSE]
    /\ pc' = [pc EXCEPT ![p] = "idle"]
    /\ UNCHANGED <<store, config, tried, returned>>
    /\ UNCHANGED loop
    /\ HistNext

(* A worker that is not inside a call starts a dequeue, whatever the other *)
(* workers are doing.                                                      *)
RaceDequeue(p) ==
    /\ pc[p] = "idle"
    /\ CallDequeue(p, AGENT_ROLE)
    /\ UNCHANGED <<store, config, task_id, result, tried, returned,
                   was_terminal>>
    /\ UNCHANGED loop
    /\ HistNext

(* A caller that is not inside a call starts complete_task or fail_task    *)
(* for any id, whatever the other callers are doing.                       *)
RaceComplete(p) ==
    /\ pc[p] = "idle"
    /\ \E id \in Names : CallTerminal(p, "ct", id, SampleResult)
    /\ UNCHANGED <<store, config, agent_role, task_files, task_file, ret,
                   tried, moved, returned>>
    /\ UNCHANGED loop
    /\ HistNext

RaceFail(p) ==
    /\ pc[p] = "idle"
    /\ \E id \in Names : CallTerminal(p, "ft", id, SampleError)
    /\ UNCHANGED <<store, config, agent_role, task_files, task_file, ret,
                   tried, moved, returned>>
    /\ UNCHANGED loop
    /\ HistNext

(* ------------------- a direct caller of process_task ------------------- *)
(* result = await agent.process_task({'epic': ..., 'id': ...}), as the     *)
(* test script calls it: any task dict, no queue involved.  An exception   *)
(* of the call reaches the caller.                                         *)
DirectCall(p) ==
    /\ pc[p] = "idle"
    /\ \E n \in Names, e \in Epics :
          LET t == PendingFile(n, e) IN
          \E net \in NetOutcomes(e) :
             LET r == process_task(t, config, net) IN
             /\ ret' = [ret EXCEPT ![p] = t]
             /\ result' = [result EXCEPT ![p] = r.result]
             /\ tried' = [tried EXCEPT ![p] = r.tried]
             /\ outcome' = [outcome EXCEPT ![p] =
                               IF r.raised THEN "raised" ELSE "returned"]
    /\ pc' = [pc EXCEPT ![p] = "pt_ret"]
    /\ UNCHANGED <<store, config, agent_role, task_files, task_file, task,
                   task_id, logged, moved, returned, was_terminal>>
    /\ UNCHANGED loop
    /\ HistNext

(* The caller has looked at the result.                                    *)
DirectReturn(p) ==
    /\ pc[p] = "pt_ret"
    /\ ret' = [ret EXCEPT ![p] = Absent]
    /\ result' = [result EXCEPT ![p] = NoResult]
    /\ tried' = [tried EXCEPT ![p] = <<>>]
    /\ outcome' = [outcome EXCEPT ![p] = ""]
    /\ pc' = [pc EXCEPT ![p] = "idle"]
    /\ UNCHANGED <<store, config, agent_role, task_files, task_file, task,
                   task_id, logged, moved, returned, was_terminal>>
    /\ UNCHANGED loop
    /\ HistNext

(* --------------------------- specifications --------------------------- *)
QueueStep(p) ==
    \/ DequeueRead(p)
    \/ DequeueRename(p)
    \/ DequeueOpen(p)
    \/ DequeueDump(p)
    \/ TerminalRead(p)
    \/ TerminalOpen(p)
    \/ TerminalDump(p)
    \/ TerminalUnlink(p)

(* load_config with no provider set in the environment.                    *)
DefaultConfig == [image_generation_provider |-> "disabled",
                  image_generation |-> "disabled"]

(* The epics that differ in how the queue and the loop treat them.         *)
QueueEpics == {EpicSnake, EpicWriter, EpicNoTitle, EpicNoPrompt}

Next ==
    \E p \in Procs :
          \/ QueueStep(p)
          \/ PollDequeue(p)
          \/ PollProcess(p)
          \/ PollReport(p)
          \/ PollReported(p)
          \/ PollSleep(p)

(* NumProcs designer agents, started with the default configuration,       *)
(* polling one queue directory.                                            *)
Init ==
    /\ InitCommon(QueueEpics)
    /\ config = DefaultConfig
    /\ pc = [p \in Procs |-> "poll"]

Spec == Init /\ [][Next]_vars

(* The steps of one agent.  The event loop runs the only coroutine of the  *)
(* process whenever it can continue, and each sleep ends: every agent      *)
(* whose loop can take a step eventually takes one.                        *)
Worker(p) ==
    \/ QueueStep(p)
    \/ PollDequeue(p)
    \/ PollProcess(p)
    \/ PollReport(p)
    \/ PollReported(p)
    \/ PollSleep(p)

FairSpec == Init /\ [][Next]_vars /\ \A p \in Procs : WF_vars(Worker(p))

(* One designer agent on its own, under every provider configuration and   *)
(* every epic.                                                             *)
SoloInit ==
    /\ InitCommon(Epics)
    /\ config \in Configs
    /\ pc = [p \in Procs |-> IF p = 1 THEN "poll" ELSE "off"]

SoloSpec == SoloInit /\ [][Next]_vars

(* The queue on its own: a caller invokes dequeue, complete_task and       *)
(* fail_task with arbitrary arguments, one call after the other.           *)
ApiInit ==
    /\ InitCommon(QueueEpics \cup {EpicNoRole})
    /\ config = DefaultConfig
    /\ pc = [p \in Procs |-> IF p = 1 THEN "idle" ELSE "off"]

ApiNext ==
    \E p \in Procs :
          \/ QueueStep(p)
          \/ ApiDequeue(p)
          \/ ApiComplete(p)
          \/ ApiFail(p)
          \/ ApiReturn(p)

ApiSpec == ApiInit /\ [][ApiNext]_vars

RaceEpics == {EpicSnake, EpicWriter, EpicNoTitle}

(* NumProcs workers of one role whose dequeue calls overlap in every way.  *)
RaceInit ==
    /\ InitCommon(RaceEpics)
    /\ config = DefaultConfig
    /\ pc = [p \in Procs |-> "idle"]

RaceNext ==
    \E p \in Procs :
                \/ DequeueRead(p)
          \/ DequeueRename(p)
          \/ DequeueOpen(p)
          \/ DequeueDump(p)
          \/ RaceDequeue(p)
          \/ ApiReturn(p)

RaceSpec == RaceInit /\ [][RaceNext]_vars

(* NumProcs designer agents polling a queue directory of well-formed      *)
(* designer tasks: one that process_task completes, one that it fails.     *)
CrewEpics == {EpicSnake, EpicNoPrompt}

CrewInit ==
    /\ InitCommon(CrewEpics)
    /\ \A n \in Names : pending_dir[n] # Torn
    /\ config = DefaultConfig
    /\ pc = [p \in Procs |-> "poll"]

CrewSpec == CrewInit /\ [][Next]_vars

(* A start-up that puts what it finds in processing back into pending.     *)
TaskQueueInitRecover(found) ==
    [pending |-> [n \in Names |-> IF Exists(found.processing, n)
                                  THEN found.processing[n]
                                  ELSE found.pending[n]],
     processing |-> [n \in Names |-> Absent]]

(* TaskQueue.init: mkdir(parents=True, exist_ok=True) for each directory;  *)
(* the files found in them are left where they are.                        *)
TaskQueueInit(found) == found

(* What a crashed run can leave in processing: the file as it was in       *)
(* pending (crash between rename and rewrite), an empty file (crash        *)
(* between open and json.dump), or the rewritten record.                   *)
OrphanContents(n) ==
    {PendingFile(n, EpicSnake), Torn,
     ProcessingRecord(PendingFile(n, EpicSnake), n)}

FoundAtStart ==
    {found \in [pending : [Names -> {PendingFile(n, EpicSnake) : n \in Names}
                                        \cup {Absent}],
                processing : [Names -> UNION {OrphanContents(n) : n \in Names}
                                           \cup {Absent}]] :
        \A n \in Names :
            /\ found.pending[n] \in {PendingFile(n, EpicSnake), Absent}
            /\ found.processing[n] \in OrphanContents(n) \cup {Absent}
            /\ ~(Exists(found.pending, n) /\ Exists(found.processing, n))}

(* NumProcs designer agents started on the directory an earlier run left   *)
(* behind.                                                                 *)
RestartInit ==
    /\ \E found \in FoundAtStart :
          /\ pending_dir = TaskQueueInit(found).pending
          /\ processing_dir = TaskQueueInit(found).processing
          /\ orphans = {n \in Names : Exists(found.processing, n)}
    /\ completed_dir = [n \in Names |-> Absent]
    /\ failed_dir = [n \in Names |-> Absent]
    /\ InitAgents
    /\ hist = [n \in Names |->
                 IF Readable(pending_dir, n) THEN <<"pending">>
                 ELSE IF Readable(processing_dir, n)
                      THEN <<processing_dir[n].status>> ELSE <<>>]
    /\ config = DefaultConfig
    /\ pc = [p \in Procs |-> "poll"]

RestartSpec == RestartInit /\ [][Next]_vars

(* One designer agent that can be shut down or interrupted at any time.    *)
StopInit ==
    /\ InitCommon(CrewEpics)
    /\ config = DefaultConfig
    /\ pc = [p \in Procs |-> IF p = 1 THEN "poll" ELSE "off"]

StopNext ==
    \E p \in Procs :
          \/ QueueStep(p)
          \/ PollDequeue(p)
          \/ PollProcess(p)
          \/ PollReport(p)
          \/ PollReported(p)
          \/ PollSleep(p)
          \/ PollExit(p)
          \/ Shutdown(p)
          \/ Interrupt(p)

StopSpec == StopInit /\ [][StopNext]_vars

(* One designer agent whose iterations can end in the except clause of the *)
(* loop.                                                                   *)
BackoffNext ==
    \E p \in Procs :
          \/ QueueStep(p)
          \/ PollDequeue(p)
          \/ PollProcess(p)
          \/ PollReport(p)
          \/ PollReported(p)
          \/ PollSleep(p)
          \/ PollFault(p)

BackoffSpec == StopInit /\ [][BackoffNext]_vars

(* process_task on its own: one caller, every configuration, every task.   *)
DirectInit ==
    /\ InitCommon(Epics)
    /\ \A n \in Names : pending_dir[n] = Absent
    /\ config \in Configs
    /\ pc = [p \in Procs |-> IF p = 1 THEN "idle" ELSE "off"]

DirectNext ==
    \E p \in Procs :
          \/ DirectCall(p)
          \/ DirectReturn(p)

DirectSpec == DirectInit /\ [][DirectNext]_vars

(* NumProcs callers whose dequeue, complete_task and fail_task calls, for  *)
(* any id, overlap in every way, over a directory of well-formed designer  *)
(* tasks.                                                                  *)
MixEpics == {EpicSnake}

MixInit ==
    /\ InitCommon(MixEpics)
    /\ \A n \in Names : pending_dir[n] # Torn
    /\ config = DefaultConfig
    /\ pc = [p \in Procs |-> "idle"]

MixNext ==
    \E p \in Procs :
          \/ QueueStep(p)
          \/ RaceDequeue(p)
          \/ RaceComplete(p)
          \/ RaceFail(p)
          \/ ApiReturn(p)

MixSpec == MixInit /\ [][MixNext]_vars

(* =============================== claims =============================== *)
DequeuePcs == {"dq_loop", "dq_rename", "dq_open", "dq_dump"}
TerminalPcs == {"ct_read", "ct_open", "ct_dump", "ct_unlink",
                "ft_read", "ft_open", "ft_dump", "ft_unlink"}
TerminalRets == {"ct_ret", "ft_ret"}

IsPrefix(a, b) == Len(a) <= Len(b) /\ \A i \in 1..Len(a) : a[i] = b[i]

(* The directories that hold a file named n.                               *)
Where(n) ==
    {d \in {"pending", "processing", "completed", "failed"} :
        Exists(CASE d = "pending" -> pending_dir
                 [] d = "processing" -> processing_dir
                 [] d = "completed" -> completed_dir
                 [] d = "failed" -> failed_dir, n)}

(* C1 -- Mutual exclusion: whatever the interleaving of the list, read,    *)
(* rename and rewrite steps of concurrent dequeue calls, a task is         *)
(* returned to at most one of the callers.                                 *)
MutualExclusion == \A n \in Names : returned[n] <= 1

(* A caller has read a matching task, lost the rename to another caller    *)
(* that was returned the task, and went on with its loop.                  *)
MutualExclusionWitness ==
    \E q \in Procs, n \in Names :
        /\ returned[n] = 1
        /\ pc[q] = "dq_loop"
        /\ task_file[q] = n
        /\ task[q].kind = "json" /\ task[q].id = n
        /\ RoleMatches(task[q], agent_role[q])
        /\ n \notin moved[q]

(* C2 -- Partition exclusivity: at every instant a task has a file in      *)
(* exactly one of the four directories, never in two.                      *)
PartitionExclusive ==
    \A n \in Names :
        /\ Cardinality(Where(n)) <= 1
        /\ Exists(pending_dir, n) \/ hist[n] # <<>> => Cardinality(Where(n)) = 1

(* C3 -- Lifecycle monotonicity: the status values seen in the store for a *)
(* task form a prefix of pending, processing, completed or of pending,     *)
(* processing, failed.                                                     *)
LifecycleMonotone ==
    \A n \in Names :
        \/ IsPrefix(hist[n], <<"pending", "processing", "completed">>)
        \/ IsPrefix(hist[n], <<"pending", "processing", "failed">>)

(* One task has run through to completed and another through to failed.    *)
LifecycleWitness ==
    \E n \in Names, m \in Names :
        /\ hist[n] = <<"pending", "processing", "completed">>
        /\ hist[m] = <<"pending", "processing", "failed">>

(* C4 -- Role filtering: dequeue(role) returns only tasks of that role,    *)
(* and no step of the call moves or rewrites a pending task of another     *)
(* role.                                                                   *)
RoleFiltering ==
    [][\A p \in Procs :
         /\ pc'[p] = "dq_ret" /\ ret'[p].kind = "json"
               => ret'[p].epic.role = agent_role'[p]
         /\ pc[p] \in DequeuePcs =>
               \A n \in Names :
                   Readable(pending_dir, n)
                       /\ pending_dir[n].epic.role # agent_role[p]
                   => /\ pending_dir'[n] = pending_dir[n]
                      /\ processing_dir'[n] = processing_dir[n]]_vars

(* A dequeue("designer") call has visited every pending file and returned  *)
(* none while a writer task is still pending.                              *)
RoleFilteringWitness ==
    \E p \in Procs, n \in Names :
        /\ pc[p] = "dq_ret"
        /\ agent_role[p] = "designer"
        /\ ret[p].kind = "absent"
        /\ task_files[p] = {}
        /\ Readable(pending_dir, n)
        /\ pending_dir[n].epic.role = "writer"

(* Some asset of the result has the type of request i.                     *)
HasAssetFor(r, tr, i) ==
    \E k \in 1..Len(r.assets) : r.assets[k].type = tr[i].type

(* C5 -- Pipeline totality: process_task yields at least one asset for     *)
(* every derived request, also when every network call fails.              *)
PipelineTotality ==
    \A p \in Procs :
        pc[p] = "report" =>
            \A i \in 1..Len(tried[p]) : HasAssetFor(result[p], tried[p], i)

(* C6 -- Ordered fallback: a failed generation call for a request is       *)
(* always followed by the call of the next strategy for that request.      *)
OrderedFallback ==
    \A p \in Procs :
        pc[p] = "report" =>
            \A i \in 1..Len(tried[p]) :
                ~tried[p][i].ok =>
                    \E j \in (i + 1)..Len(tried[p]) :
                        tried[p][j].type = tried[p][i].type

(* C7 -- Total provider outage: when every remote generation call for a    *)
(* claimed task failed, the task still ends in completed, not failed, with *)
(* an image for each request.                                              *)
TotalOutageCompletes ==
    \A p \in Procs :
        (/\ pc[p] \in TerminalRets
         /\ tried[p] # <<>>
         /\ \A i \in 1..Len(tried[p]) :
               tried[p][i].network /\ ~tried[p][i].ok)
        => /\ Readable(completed_dir, task_id[p])
           /\ ~Exists(failed_dir, task_id[p])
           /\ \A i \in 1..Len(tried[p]) :
                 HasAssetFor(completed_dir[task_id[p]].result, tried[p], i)

(* C8 -- A complete_task / fail_task call that finds no processing file    *)
(* for its id ends with an error raised to its caller.                     *)
NotFoundSurfaced ==
    \A p \in Procs :
        pc[p] \in TerminalRets /\ task[p].kind = "absent"
            => outcome[p] = "raised"

(* C9 -- Idempotent terminal calls: no step of a complete_task / fail_task *)
(* call made for a task that already has a completed or failed record      *)
(* changes any file of any directory.                                      *)
TerminalCallIdempotent ==
    [][\A p \in Procs :
          pc[p] \in TerminalPcs /\ was_terminal[p] => store' = store]_vars

(* Such a second call has come back.                                       *)
TerminalCallIdempotentWitness ==
    \E p \in Procs :
        /\ pc[p] \in TerminalRets
        /\ was_terminal[p]
        /\ logged[p]
        /\ Cardinality(Where(task_id[p])) = 1

(* C10 -- Claim atomicity: the tasks a dequeue call has moved from pending *)
(* to processing are exactly the task it returns; a call that returns none *)
(* has moved nothing.                                                      *)
ClaimAtomic ==
    \A p \in Procs :
        pc[p] = "dq_ret" =>
            moved[p] = IF ret[p].kind = "absent" THEN {}
                       ELSE {ret[p].processingPath}

(* C11: no task disappears -- a task that has a file in some directory of  *)
(* the store still has a file in at least one directory after every step   *)
(* of every worker, whatever the interleaving of their dequeue,            *)
(* complete_task and fail_task calls.                                      *)
NoTaskDisappears ==
    [][\A n \in Names : Where(n) # {} => Where(n)' # {}]_vars

(* A task whose processing file a terminal call has unlinked while another *)
(* worker is inside a call of its own.                                     *)
NoTaskDisappearsWitness ==
    \E n \in Names, p, q \in Procs :
        /\ p # q
        /\ pc[p] \in TerminalRets
        /\ task_id[p] = n
        /\ ~logged[p]
        /\ "processing" \notin Where(n)
        /\ Where(n) \in {{"completed"}, {"failed"}}
        /\ pc[q] \in DequeuePcs \cup TerminalPcs

(* C12: every task a worker has claimed -- moved into processing --        *)
(* eventually has a record in completed or in failed, provided the loops   *)
(* keep running.                                                           *)
ClaimedEventuallyTerminal ==
    \A n \in Names :
        Exists(processing_dir, n)
            ~> (Exists(completed_dir, n) \/ Exists(failed_dir, n))

(* C13: a file found in processing at start-up, whatever status it         *)
(* carries, is never moved back to pending and never returned by a         *)
(* dequeue call.                                                           *)
OrphansStay ==
    \A n \in orphans : ~Exists(pending_dir, n) /\ returned[n] = 0

(* A dequeue call has returned another task while a file whose status      *)
(* still reads pending sits in processing since start-up.                  *)
OrphansStayWitness ==
    \E n \in orphans, p \in Procs :
        /\ Readable(processing_dir, n)
        /\ processing_dir[n].status = "pending"
        /\ pc[p] = "report"
        /\ ret[p].id # n

(* C14: a record of the completed or the failed directory is never deleted *)
(* and never rewritten -- no step of dequeue, complete_task, fail_task or  *)
(* of the loop changes the file that holds it.                             *)
TerminalRecordsKept ==
    [][\A n \in Names :
          /\ Readable(completed_dir, n) => completed_dir'[n] = completed_dir[n]
          /\ Readable(failed_dir, n) => failed_dir'[n] = failed_dir[n]]_vars

(* A completed record and a failed record have been through a later       *)
(* dequeue call.                                                           *)
TerminalRecordsKeptWitness ==
    \E n, m \in Names, p \in Procs :
        /\ Readable(completed_dir, n)
        /\ Readable(failed_dir, m)
        /\ n # m
        /\ pc[p] = "dq_ret"

(* C15: error containment -- whatever dequeue, process_task, complete_task *)
(* or fail_task meet (an unreadable file, a failed rename, a raising log   *)
(* line, a failed derivation), no step takes a loop whose is_running is    *)
(* true out of poll_for_tasks, and the loop always has a next step to      *)
(* take.                                                                   *)
ErrorContained ==
    [][\A p \in Procs :
          pc[p] \in LoopPcs /\ is_running[p]
              => /\ pc'[p] \in LoopPcs
                 /\ is_running'[p]
                 /\ ENABLED Worker(p)]_vars

(* An iteration whose dequeue met an unparseable file went on to claim and *)
(* finish a later task, and the dequeue of a further iteration has ended.  *)
ErrorContainedWitness ==
    \E n, m \in Names, p \in Procs :
        /\ n < m
        /\ pending_dir[n] = Torn
        /\ Readable(completed_dir, m) \/ Readable(failed_dir, m)
        /\ pc[p] = "dq_ret"
        /\ ret[p] = Absent

(* C16: backoff -- the sleep that follows a second (or later) consecutive  *)
(* iteration error is twice the sleep of an iteration without error, and   *)
(* no sleep of the loop is longer than a fixed cap, however many errors    *)
(* follow one another.                                                     *)
BackoffCap == 2 * poll_interval

Backoff ==
    \A p \in Procs :
        /\ wait[p] <= BackoffCap
        /\ pc[p] = "sleep" /\ errs[p] >= 2 => wait[p] = 2 * NormalWait
        /\ pc[p] = "sleep" /\ errs[p] = 0 => wait[p] = NormalWait

(* The loop sleeps after its third consecutive iteration error.            *)
BackoffWitness ==
    \E p \in Procs : pc[p] = "sleep" /\ errs[p] = 3 /\ wait[p] > NormalWait

(* C17: draining -- once shutdown has set is_running to false, no step of  *)
(* the loop starts a dequeue call.                                         *)
Draining ==
    [][\A p \in Procs :
          ~is_running[p] /\ pc[p] \notin DequeuePcs
              => pc'[p] \notin DequeuePcs]_vars

(* The loop has woken from the sleep during which shutdown ran and is back *)
(* at its while test.                                                      *)
DrainingWitness ==
    \E p \in Procs : pc[p] = "poll" /\ ~is_running[p]

(* C18: shutdown never aborts in-flight work -- when the process of an     *)
(* agent exits, every task a dequeue call has returned to it has reached   *)
(* complete_task or fail_task: it has a record in completed or in failed.  *)
ShutdownKeepsInflight ==
    \A p \in Procs, n \in Names :
        pc[p] = "exit" /\ returned[n] >= 1
            => Exists(completed_dir, n) \/ Exists(failed_dir, n)

(* C19: in every state of the store, a record of any directory carries a   *)
(* result only if its status is completed and an error only if its status  *)
(* is failed.                                                              *)
Records ==
    {d[n] : d \in {pending_dir, processing_dir, completed_dir, failed_dir},
            n \in Names}

ResultErrorByStatus ==
    \A t \in Records :
        t.kind = "json" =>
            /\ t.result.present => t.status = "completed"
            /\ t.error # "" => t.status = "failed"

(* The store holds a completed record with its result and a failed record  *)
(* with its error.                                                         *)
ResultErrorByStatusWitness ==
    \E n, m \in Names :
        /\ Readable(completed_dir, n) /\ completed_dir[n].result.present
        /\ Readable(failed_dir, m) /\ failed_dir[m].error # ""

(* C20: the loop calls fail_task for a claimed task only when the          *)
(* derivation of its requests has failed or no request has yielded an      *)
(* asset; in every other case it calls complete_task, and the task ends    *)
(* with a completed record.                                                *)
DerivationFails(epic) == ~epic.title \/ ~epic.prompt

FailPcs == {"ft_read", "ft_open", "ft_dump", "ft_unlink", "ft_ret"}

FailedOnlyWhenNothing ==
    \A p \in Procs :
        pc[p] \in TerminalPcs \cup TerminalRets =>
            LET nothing == \/ DerivationFails(ret[p].epic)
                           \/ result[p].assets = <<>>
            IN  /\ pc[p] \in FailPcs => nothing
                /\ ~nothing /\ pc[p] = "ct_ret"
                      => /\ Readable(completed_dir, task_id[p])
                         /\ completed_dir[task_id[p]].status = "completed"
                         /\ ~Exists(failed_dir, task_id[p])

(* fail_task has come back for a task whose epic has no prompt, and its    *)
(* record is in failed.                                                    *)
FailedOnlyWhenNothingWitness ==
    \E p \in Procs :
        /\ pc[p] = "ft_ret"
        /\ ~ret[p].epic.prompt
        /\ Readable(failed_dir, task_id[p])
        /\ failed_dir[task_id[p]].status = "failed"

(* C21: losing a claim race is a miss -- the step in which the rename of a *)
(* dequeue call fails changes no file and raises nothing; the call writes  *)
(* no file of a task it has not moved itself; and it returns none, or a    *)
(* matching task that it did move.                                         *)
OwnStep(p) == pc'[p] # pc[p] \/ task_files'[p] # task_files[p]

FilesOf(n) == <<pending_dir[n], processing_dir[n], completed_dir[n],
                failed_dir[n]>>

LostRaceIsMiss ==
    [][\A p \in Procs :
          /\ pc[p] = "dq_rename" /\ pc'[p] \notin {"dq_rename", "dq_open"}
                => /\ store' = store
                   /\ pc'[p] = "dq_loop"
                   /\ outcome'[p] # "raised"
          /\ pc[p] \in DequeuePcs /\ OwnStep(p)
                => \A n \in Names \ moved'[p] : FilesOf(n)' = FilesOf(n)
          /\ pc'[p] = "dq_ret"
                => /\ outcome'[p] = "returned"
                   /\ \/ ret'[p] = Absent
                      \/ /\ ret'[p].id \in moved'[p]
                         /\ RoleMatches(ret'[p], agent_role'[p])]_vars

(* A call whose rename of a task has failed stands before the next file    *)
(* while the winner is between the open and the dump of its rewrite.       *)
LostRaceIsMissWitness ==
    \E p \in Procs, n \in Names :
        /\ pc[p] = "dq_loop"
        /\ task_file[p] = n
        /\ n \notin moved[p]
        /\ processing_dir[n] = Torn
        /\ ~Exists(pending_dir, n)

(* C22: no torn reads -- at no moment does a file of the store hold an     *)
(* empty or partially written record, so a reader that opens a task file   *)
(* while calls of other processes are in progress always parses a whole    *)
(* record.                                                                 *)
NoTornReads ==
    \A n \in Names :
        /\ pending_dir[n].kind # "torn"
        /\ processing_dir[n].kind # "torn"
        /\ completed_dir[n].kind # "torn"
        /\ failed_dir[n].kind # "torn"

(* C23: process_task never raises -- every call, for any task dict, comes  *)
(* back with success = True and a list of assets, or with success = False  *)
(* and an error string.                                                    *)
ProcessTaskTotal ==
    \A p \in Procs :
        pc[p] = "pt_ret" =>
            /\ outcome[p] = "returned"
            /\ result[p].present
            /\ ~result[p].success => result[p].error # ""

(* C24: pending tasks are eventually claimable -- while the loops of the   *)
(* designer workers keep polling, every pending task of role designer is   *)
(* eventually returned by one of their dequeue calls.                      *)
PendingEventuallyReturned ==
    \A n \in Names :
        (Readable(pending_dir, n) /\ pending_dir[n].epic.role = AGENT_ROLE)
            ~> (returned[n] >= 1)

(* C25: happy path -- for the designer task "Snake Sprite" / "green        *)
(* pixel-art snake character" that a designer worker has claimed, exactly  *)
(* one request is derived, of type character and size 64x64; when its      *)
(* generation call succeeds the loop calls complete_task, and the task     *)
(* ends with status completed and exactly one asset, of type character.    *)
HappyPath ==
    \A p \in Procs :
        (/\ pc[p] \in {"report"} \cup TerminalPcs \cup TerminalRets
         /\ ret[p].kind = "json"
         /\ ret[p].epic = EpicSnake)
        => /\ Len(tried[p]) = 1
           /\ tried[p][1].type = "character"
           /\ tried[p][1].size = <<64, 64>>
           /\ tried[p][1].ok
                => /\ result[p].success
                   /\ Len(result[p].assets) = 1
                   /\ result[p].assets[1].type = "character"
                   /\ pc[p] \notin FailPcs
                   /\ pc[p] = "ct_ret"
                         => /\ Readable(completed_dir, task_id[p])
                            /\ completed_dir[task_id[p]].status = "completed"
                            /\ completed_dir[task_id[p]].result = result[p]
                            /\ Where(task_id[p]) = {"completed"}

(* complete_task has come back for the snake task, generated by the        *)
(* configured network provider.                                            *)
HappyPathWitness ==
    \E p \in Procs :
        /\ pc[p] = "ct_ret"
        /\ ret[p].kind = "json"
        /\ ret[p].epic = EpicSnake
        /\ tried[p][1].network
        /\ tried[p][1].ok
        /\ completed_dir[task_id[p]].status = "completed"

(* C26: terminal exclusivity -- no task id has a file in the completed and *)
(* in the failed directory at once, however the complete_task and          *)
(* fail_task calls issued for that id interleave.                          *)
TerminalExclusive ==
    \A n \in Names : ~(Exists(completed_dir, n) /\ Exists(failed_dir, n))

(* C27: whenever no dequeue call stands between its rename and the end of  *)
(* its rewrite, every file in processing holds a record with status        *)
(* processing and a processedAt timestamp; and every task a dequeue call   *)
(* returns carries the same two fields.                                    *)
Rewriting(p) == pc[p] \in {"dq_open", "dq_dump"}

ProcessingStamped ==
    /\ (\A p \in Procs : ~Rewriting(p))
          => \A n \in Names :
                Exists(processing_dir, n)
                    => /\ Readable(processing_dir, n)
                       /\ processing_dir[n].status = "processing"
                       /\ processing_dir[n].processedAt # 0
    /\ \A p \in Procs :
          pc[p] = "dq_ret" /\ ret[p] # Absent
              => /\ ret[p].status = "processing"
                 /\ ret[p].processedAt # 0

(* A call has returned a task whose file is in processing, no call is      *)
(* rewriting, and another call is under way.                               *)
ProcessingStampedWitness ==
    \E p, q \in Procs :
        /\ p # q
        /\ pc[p] = "dq_ret"
        /\ ret[p] # Absent
        /\ processing_dir[ret[p].id] = ret[p]
        /\ pc[q] \in DequeuePcs
        /\ \A r \in Procs : ~Rewriting(r)

(* C28: for each task a dequeue call has returned to the loop, the loop    *)
(* makes one complete_task or fail_task call for the id of that task,      *)
(* after process_task and before its next dequeue call: from the return of *)
(* dequeue the loop goes to process_task, from there into one terminal     *)
(* call for that id, and from the end of that call to the sleep, the task  *)
(* then having a terminal record; so at most one task that has been        *)
(* returned to the worker is without a terminal record.                    *)
Unresolved ==
    {n \in Names : /\ returned[n] >= 1
                   /\ ~Exists(completed_dir, n)
                   /\ ~Exists(failed_dir, n)}

OneReportPerTask ==
    [][\A p \in Procs :
          /\ pc[p] = "dq_ret" /\ ret[p] # Absent
                => pc'[p] \in {"dq_ret", "report"}
          /\ pc[p] = "report"
                => /\ pc'[p] \in {"report", "ct_read", "ft_read"}
                   /\ pc'[p] # "report" => task_id'[p] = ret[p].id
          /\ pc[p] \in TerminalRets
                => /\ pc'[p] \in TerminalRets \cup {"sleep"}
                   /\ task_id[p] \notin Unresolved
          /\ pc[p] \in {"poll", "sleep"} /\ pc'[p] \in DequeuePcs
                => Unresolved = {}
          /\ Cardinality(Unresolved) <= 1]_vars

(* The worker has reported one task, started its next dequeue call and got *)
(* a second task.                                                          *)
OneReportPerTaskWitness ==
    \E p \in Procs, n \in Names :
        /\ pc[p] = "report"
        /\ ret[p].id # n
        /\ returned[n] = 1
        /\ n \notin Unresolved
        /\ Unresolved = {ret[p].id}

(* C29: dequeue, complete_task and fail_task never change the id or the    *)
(* epic of a record -- every record that a step leaves in a file named n,  *)
(* or in the local task of a call working on n, has the id and the epic of *)
(* a record that a file named n or such a local held before the step.      *)
Copies(n) ==
    {t \in {pending_dir[n], processing_dir[n], completed_dir[n],
            failed_dir[n]} : t.kind = "json"}
    \cup {task[p] : p \in {q \in Procs : /\ task[q].kind = "json"
                                        /\ n \in {task_file[q], task_id[q]}}}

IdAndEpicKept ==
    [][\A n \in Names :
          \A new \in Copies(n)' :
              \E old \in Copies(n) :
                  new.id = old.id /\ new.epic = old.epic]_vars

(* A record has gone through dequeue and fail_task and carries the fields  *)
(* both have set.                                                          *)
IdAndEpicKeptWitness ==
    \E n \in Names :
        /\ Readable(failed_dir, n)
        /\ failed_dir[n].id = n
        /\ failed_dir[n].epic = EpicNoPrompt
        /\ failed_dir[n].processedAt # 0
        /\ failed_dir[n].failedAt # 0
        /\ Where(n) = {"failed"}

(* C30: for every task a dequeue call has returned, the complete_task or   *)
(* fail_task call the loop makes with task['id'] addresses the file that   *)
(* dequeue moved into processing (named after the pending file) and finds  *)
(* in it the very record dequeue returned; when the call has ended, that   *)
(* file is gone from processing and the record, with its terminal status,  *)
(* is in the terminal directory.                                           *)
SameRecord(a, b) ==
    /\ a.kind = "json"
    /\ a.id = b.id
    /\ a.epic = b.epic
    /\ a.processedAt = b.processedAt
    /\ a.processingPath = b.processingPath

Unusable(f) == f = Torn \/ (f.kind = "json" /\ f.epic.role = "")

WellFormedFor(f, role) ==
    /\ f.kind = "json"
    /\ f.epic.role = role
    /\ f.epic.title

BadFileSkipped ==
    [][/\ \A n \in Names :
             Unusable(pending_dir[n]) => pending_dir'[n] = pending_dir[n]
       /\ \A p \in Procs :
             pc'[p] = "dq_ret" /\ ret'[p] = Absent
                => ~\E n \in Names :
                       WellFormedFor(pending_dir'[n], agent_role'[p])]_vars

(* A dequeue call has returned a task that was listed after a file it      *)
(* could not use, and that file is still in pending.                       *)
BadFileSkippedWitness ==
    \E p \in Procs : \E m, n \in Names :
        /\ pc[p] = "dq_ret"
        /\ ret[p] # Absent
        /\ ret[p].id = n
        /\ m < n
        /\ Unusable(pending_dir[m])
        /\ processing_dir[n] = ret[p]

(* C32: when the provider is disabled under both keys, is local, or is an  *)
(* unrecognised value, a process_task call that returns has made no        *)
(* network request and its result holds one placeholder asset for every    *)
(* asset type derived from the epic, in the order of derivation.           *)
NoNetworkProvider(cfg) == Provider(cfg) \notin {"openai", "stable-diffusion"}

DerivedTypes(epic, cfg) ==
    IF EpicRaises(epic) THEN <<>>
    ELSE IF Provider(cfg) = "disabled" THEN asset_types(epic)
    ELSE LET reqs == analyze_epic_for_assets(epic)
         IN  [i \in 1..Len(reqs) |-> reqs[i].type]

AssetTypes(r) == [k \in 1..Len(r.assets) |-> r.assets[k].type]

PlaceholderForEveryType ==
    \A p \in Procs :
        (/\ pc[p] = "pt_ret"
         /\ outcome[p] = "returned"
         /\ NoNetworkProvider(config))
        => /\ \A i \in 1..Len(tried[p]) :
                 /\ ~tried[p][i].network
                 /\ tried[p][i].ok
           /\ AssetTypes(result[p]) = DerivedTypes(ret[p].epic, config)

====
